---- MODULE Spec2Model ----
(***************************************************************************)
(* QHangups main widget (qhangups/qhangups.py): the tray-icon controller   *)
(* that owns the Hangouts session, the conversation surfaces and the       *)
(* double-click timer, together with the asyncio/Qt event loop that calls  *)
(* its handlers.  Every handler runs to completion on the single event     *)
(* loop thread, so one action is one handler.                              *)
(***************************************************************************)
EXTENDS Integers, Sequences, FiniteSets, TLC

VARIABLES widget, loop, last

vars == <<widget, loop, last>>

(* ---------------------------------------------------------------- bounds *)

\* Number of hangups.Client objects the model lets hangups_start create.
MaxClients == 2

ClientIds == 1 .. MaxClients

(* ------------------------------------------------------- value universes *)

\* Python None and a present object reference.
None == <<>>
Some(x) == <<x>>
Val(o) == o[1]

\* Conversation identifiers carried by conversation events.
ConvIds == {"C1", "C42"}

\* Types of conversation events delivered to on_event.
EventKinds == {"ChatMessageEvent", "OtherEvent"}

\* Activation reasons the tray icon reports.
Reasons == {"Trigger", "Context"}

\* What the user does when hangups.auth.get_auth asks for input, and the
\* prompt that a cancelling user cancels.
Scenarios == {"valid", "bad_credentials", "cancel"}
Prompts == {"email", "password", "pin"}

\* What get_auth does with a callback that returned False: the library is not
\* part of the program, so each outcome a library can produce is kept.
LibOutcomes == {"falsy", "GoogleAuthError", "error"}

\* What the hangups collection constructors do when handed client = None.
CtorOutcomes == {"ok", "UserList_raises", "ConversationList_raises"}

(* ------------------------------------------------ the running handler st *)
\* A handler is evaluated on a record st = [w, l, calls, raised]: the widget
\* fields, the loop/collaborator state, the calls made so far and whether an
\* exception is propagating.

Call(st, name) == [st EXCEPT !.calls = Append(@, name)]

Raise(st) == [st EXCEPT !.raised = TRUE]

Begin(name) == [w |-> widget, l |-> loop, calls |-> <<name>>, raised |-> FALSE]

\* status of the Session, read off the widget fields: hangups_running is set
\* by hangups_start and the collections are built by on_connect
Status(w) ==
  IF ~w.hangups_running THEN "Disconnected"
  ELSE IF w.conv_list = None THEN "Connecting" ELSE "Connected"

(* ------------------------------------------------------------- handlers *)

\* update_status that repaints the icon and leaves the menu actions alone
update_status_icon_only(st) ==
  LET s == Call(st, "update_status") IN
  IF s.w.hangups_running
  THEN [s EXCEPT !.w.icon = "iconActive"]
  ELSE [s EXCEPT !.w.icon = "iconDisabled"]

update_status(st) ==
  LET s == Call(st, "update_status") IN
  IF s.w.hangups_running
  THEN [s EXCEPT !.w.icon = "iconActive", !.w.startEnabled = FALSE, !.w.stopEnabled = TRUE]
  ELSE [s EXCEPT !.w.icon = "iconDisabled", !.w.startEnabled = TRUE, !.w.stopEnabled = FALSE]

\* An authentication input auth = [scn, prompt, lib]: what the user does,
\* which prompt is cancelled if one is, and what the library does then.
get_credentials(auth) ==
  IF auth.scn = "cancel" /\ auth.prompt \in {"email", "password"}
  THEN "False" ELSE "credentials"

get_pin(auth) ==
  IF auth.scn = "cancel" /\ auth.prompt = "pin" THEN "False" ELSE "pin"

\* hangups.auth.get_auth as the program sees it: cookies, GoogleAuthError, or,
\* once a callback has answered False, whatever the library does with that.
get_auth(auth) ==
  IF get_credentials(auth) = "False" \/ get_pin(auth) = "False"
  THEN auth.lib
  ELSE IF auth.scn = "bad_credentials" THEN "GoogleAuthError" ELSE "cookies"

\* login's return value: "cookies", "False" (falsy) or "raise" (not caught).
login_result(auth) ==
  LET r == get_auth(auth) IN
  IF r = "cookies" THEN "cookies"
  ELSE IF r = "GoogleAuthError" \/ r = "falsy" THEN "False"
  ELSE "raise"

login(st, auth) ==
  LET s == Call(st, "login")
      r == get_auth(auth) IN
  IF r = "GoogleAuthError" THEN Call(s, "QMessageBox.warning")
  ELSE IF r = "error" THEN Raise(s)
  ELSE s

\* The hangups.Client object the next hangups.Client(cookies) call returns.
FreshClients(l) == {c \in ClientIds : l.clients[c] = "none"}
NewClient(l) == CHOOSE c \in FreshClients(l) : \A d \in FreshClients(l) : c <= d

\* hangups_start that does not test what login returned
hangups_start_ignores_login(st, auth) ==
  LET s0 == login(Call(st, "hangups_start"), auth) IN
  IF s0.raised THEN s0
  ELSE LET c == NewClient(s0.l)
           s1 == [Call(Call(s0, "hangups.Client"), "connect") EXCEPT
                    !.w.client = Some(c),
                    !.l.clients[c] = "connecting",
                    !.w.hangups_running = TRUE]
       IN update_status(s1)

hangups_start(st, auth) ==
  LET s0 == login(Call(st, "hangups_start"), auth) IN
  IF s0.raised THEN s0
  ELSE IF login_result(auth) = "cookies"
  THEN LET c == NewClient(s0.l)
           s1 == [Call(Call(s0, "hangups.Client"), "connect") EXCEPT
                    !.w.client = Some(c),
                    !.l.clients[c] = "connecting",
                    !.w.hangups_running = TRUE]
       IN update_status(s1)
  ELSE s0

\* hangups_stop that forgets to drop the message view
hangups_stop_keeps_messages_dialog(st) ==
  LET s0 == Call(st, "hangups_stop") IN
  IF s0.w.client = None
  THEN Raise(s0)
  ELSE LET s1 == [Call(s0, "disconnect") EXCEPT
                    !.l.disconnecting = @ \cup {Val(s0.w.client)},
                    !.w.conv_list = None,
                    !.w.user_list = None,
                    !.w.notifier = None,
                    !.w.conversations_dialog = None,
                    !.w.hangups_running = FALSE,
                    !.w.client = None]
       IN update_status(s1)

hangups_stop(st) ==
  LET s0 == Call(st, "hangups_stop") IN
  IF s0.w.client = None
  THEN Raise(s0)    \* None has no attribute 'disconnect'
  ELSE LET s1 == [Call(s0, "disconnect") EXCEPT
                    !.l.disconnecting = @ \cup {Val(s0.w.client)},
                    !.w.conv_list = None,
                    !.w.user_list = None,
                    !.w.notifier = None,
                    !.w.conversations_dialog = None,
                    !.w.messages_dialog = None,
                    !.w.hangups_running = FALSE,
                    !.w.client = None]
       IN update_status(s1)

\* set_language reloads the two module-level translators; no widget field changes
set_language(st) == Call(st, "set_language")

\* settings that reloads the language but leaves the open session alone
settings_without_reconnect(st, accepted, auth) ==
  IF ~accepted THEN st ELSE set_language(st)

settings(st, accepted, auth) ==
  IF ~accepted THEN st
  ELSE LET s0 == set_language(st) IN
       IF s0.w.hangups_running
       THEN LET s1 == hangups_stop(s0) IN
            IF s1.raised THEN s1 ELSE hangups_start(s1, auth)
       ELSE s0

\* icon_activated that takes every activation reason for a click
icon_activated_any_reason(st, reason, auth) ==
  IF st.w.timer_active
  THEN LET s0 == [st EXCEPT !.w.timer_active = FALSE] IN
       IF s0.w.hangups_running THEN hangups_stop(s0) ELSE hangups_start(s0, auth)
  ELSE [st EXCEPT !.w.timer_active = TRUE]

\* icon_activated that leaves the timer running on the second click
icon_activated_timer_left(st, reason, auth) ==
  IF reason = "Trigger"
  THEN IF st.w.timer_active
       THEN IF st.w.hangups_running THEN hangups_stop(st) ELSE hangups_start(st, auth)
       ELSE [st EXCEPT !.w.timer_active = TRUE]
  ELSE st

icon_activated(st, reason, auth) ==
  IF reason = "Trigger"
  THEN IF st.w.timer_active
       THEN LET s0 == [st EXCEPT !.w.timer_active = FALSE] IN
            IF s0.w.hangups_running THEN hangups_stop(s0) ELSE hangups_start(s0, auth)
       ELSE [st EXCEPT !.w.timer_active = TRUE]
  ELSE st

\* icon_doubleclick_timeout without the branch that shows a hidden list
icon_doubleclick_timeout_hide_only(st) ==
  LET d == st.w.conversations_dialog IN
  IF d # None /\ Val(d).visible
  THEN [Call(st, "hide") EXCEPT !.w.conversations_dialog = Some([Val(d) EXCEPT !.visible = FALSE])]
  ELSE st

icon_doubleclick_timeout(st) ==
  LET d == st.w.conversations_dialog IN
  IF d # None /\ Val(d).visible
  THEN [Call(st, "hide") EXCEPT !.w.conversations_dialog = Some([Val(d) EXCEPT !.visible = FALSE])]
  ELSE IF d # None
  THEN [Call(st, "show") EXCEPT !.w.conversations_dialog = Some([Val(d) EXCEPT !.visible = TRUE])]
  ELSE st

\* quit that asks but stops whatever the answer is
quit_ignores_reply(st, force, reply) ==
  LET stopLoop(s) == [Call(s, "loop.stop") EXCEPT !.l.running = FALSE] IN
  IF st.w.hangups_running
  THEN LET s0 == IF force THEN st ELSE Call(st, "QMessageBox.question")
           s1 == hangups_stop(s0)
       IN IF s1.raised THEN s1 ELSE stopLoop(s1)
  ELSE stopLoop(st)

\* quit that stops the loop and leaves the session as it is
quit_without_stop(st, force, reply) ==
  LET stopLoop(s) == [Call(s, "loop.stop") EXCEPT !.l.running = FALSE] IN
  IF st.w.hangups_running
  THEN IF ~force /\ reply # "Yes"
       THEN Call(st, "QMessageBox.question")
       ELSE stopLoop(IF force THEN st ELSE Call(st, "QMessageBox.question"))
  ELSE stopLoop(st)

quit(st, force, reply) ==
  LET stopLoop(s) == [Call(s, "loop.stop") EXCEPT !.l.running = FALSE] IN
  IF st.w.hangups_running
  THEN IF ~force /\ reply # "Yes"
       THEN Call(st, "QMessageBox.question")
       ELSE LET s0 == IF force THEN st ELSE Call(st, "QMessageBox.question")
                s1 == hangups_stop(s0)
            IN IF s1.raised THEN s1 ELSE stopLoop(s1)
  ELSE stopLoop(st)

\* QHangupsConversations(client, conv_list, parent): a message view that has
\* no tab yet and is not shown.
QHangupsConversations == [tabs |-> {}, current |-> None, visible |-> FALSE]

\* QHangupsConversationsList(client, conv_list, parent): a list not yet shown.
QHangupsConversationsList == [visible |-> FALSE]

\* QHangupsConversations.set_conv_tab: the tab of conv_id is created when it
\* is missing and becomes the current tab when switch is set (or it is the
\* only tab).
set_conv_tab(dlg, conv_id, switch) ==
  [dlg EXCEPT !.tabs = @ \cup {conv_id},
              !.current = IF switch \/ dlg.tabs = {} THEN Some(conv_id) ELSE @]

show(dlg) == [dlg EXCEPT !.visible = TRUE]

\* on_connect that builds the conversation list but does not show it
on_connect_without_show(st, data, ctor) ==
  LET ul == [client |-> st.w.client, data |-> data]
      cl == [client |-> st.w.client, data |-> data]
      s0 == Call(st, "hangups.UserList")
  IN
  IF st.w.client = None /\ ctor = "UserList_raises" THEN Raise(s0)
  ELSE LET s1 == [Call(s0, "hangups.ConversationList") EXCEPT !.w.user_list = Some(ul)] IN
       IF st.w.client = None /\ ctor = "ConversationList_raises" THEN Raise(s1)
       ELSE [Call(Call(Call(s1, "add_observer"), "Notifier"), "QHangupsConversationsList") EXCEPT
               !.w.conv_list = Some(cl),
               !.l.observers = IF st.w.client = None THEN @ ELSE @ \cup {cl},
               !.w.notifier = Some(cl),
               !.w.conversations_dialog = Some(QHangupsConversationsList)]

\* on_connect that drops the snapshot when no session is running
on_connect_checks_running(st, data, ctor) ==
  LET ul == [client |-> st.w.client, data |-> data]
      cl == [client |-> st.w.client, data |-> data]
      s0 == Call(st, "hangups.UserList")
  IN
  IF ~st.w.hangups_running THEN st
  ELSE LET s1 == [Call(s0, "hangups.ConversationList") EXCEPT !.w.user_list = Some(ul)] IN
       [Call(Call(Call(Call(s1, "add_observer"), "Notifier"),
                  "QHangupsConversationsList"), "show") EXCEPT
          !.w.conv_list = Some(cl),
          !.l.observers = @ \cup {cl},
          !.w.notifier = Some(cl),
          !.w.conversations_dialog = Some(show(QHangupsConversationsList))]

on_connect(st, data, ctor) ==
  LET ul == [client |-> st.w.client, data |-> data]
      cl == [client |-> st.w.client, data |-> data]
      s0 == Call(st, "hangups.UserList")
  IN
  IF st.w.client = None /\ ctor = "UserList_raises" THEN Raise(s0)
  ELSE LET s1 == [Call(s0, "hangups.ConversationList") EXCEPT !.w.user_list = Some(ul)] IN
       IF st.w.client = None /\ ctor = "ConversationList_raises" THEN Raise(s1)
       ELSE [Call(Call(Call(Call(s1, "add_observer"), "Notifier"),
                       "QHangupsConversationsList"), "show") EXCEPT
               !.w.conv_list = Some(cl),
               !.l.observers = IF st.w.client = None THEN @ ELSE @ \cup {cl},
               !.w.notifier = Some(cl),
               !.w.conversations_dialog = Some(show(QHangupsConversationsList))]

\* on_event that opens the message view for any conversation event
on_event_ignores_kind(st, kind, conv_id) ==
  LET s0 == IF st.w.messages_dialog = None
            THEN [Call(st, "QHangupsConversations") EXCEPT
                    !.w.messages_dialog = Some(QHangupsConversations)]
            ELSE st
      s1 == Call(Call(s0, "set_conv_tab"), "show")
  IN [s1 EXCEPT !.w.messages_dialog =
        Some(show(set_conv_tab(Val(s0.w.messages_dialog), conv_id, TRUE)))]

\* on_event that builds a new message view for every message
on_event_always_creates(st, kind, conv_id) ==
  IF kind = "ChatMessageEvent"
  THEN LET s0 == [Call(st, "QHangupsConversations") EXCEPT
                    !.w.messages_dialog = Some(QHangupsConversations)]
           s1 == Call(Call(s0, "set_conv_tab"), "show")
       IN [s1 EXCEPT !.w.messages_dialog =
             Some(show(set_conv_tab(Val(s0.w.messages_dialog), conv_id, TRUE)))]
  ELSE st

on_event(st, kind, conv_id) ==
  IF kind = "ChatMessageEvent"
  THEN LET s0 == IF st.w.messages_dialog = None
                 THEN [Call(st, "QHangupsConversations") EXCEPT
                         !.w.messages_dialog = Some(QHangupsConversations)]
                 ELSE st
           s1 == Call(Call(s0, "set_conv_tab"), "show")
       IN [s1 EXCEPT !.w.messages_dialog =
             Some(show(set_conv_tab(Val(s0.w.messages_dialog), conv_id, TRUE)))]
  ELSE st

(* ------------------------------------------------------------ the state *)

\* The fields QHangupsMainWidget.__init__ sets.
InitWidget ==
  [hangups_running |-> FALSE, client |-> None,
   icon |-> "iconDisabled", startEnabled |-> TRUE, stopEnabled |-> FALSE,
   conv_list |-> None, user_list |-> None, notifier |-> None,
   conversations_dialog |-> None, messages_dialog |-> None,
   timer_active |-> FALSE]

\* The event loop main() starts, with no hangups client yet.
\* running: until loop.stop(); clients: what became of each client's connect();
\* disconnecting: clients whose disconnect() is submitted and not completed;
\* observers: the conversation lists that carry on_event and listen to a
\* client (a list built on client None has no source of events).
InitLoop ==
  [running |-> TRUE,
   clients |-> [c \in ClientIds |-> "none"],
   disconnecting |-> {},
   observers |-> {}]

Init ==
    /\ widget = InitWidget
    /\ loop = InitLoop
    /\ last = [op |-> "__init__", args |-> <<>>,
               calls |-> <<"set_language", "update_status">>, raised |-> FALSE,
               changed |-> TRUE,
               was |-> [status |-> "Disconnected", client |-> None, timer_active |-> FALSE,
                        after_toggle |-> FALSE]]

\* The handler has run: its effects become the state, and last records which
\* handler it was, its inputs, the calls it made, whether an exception left
\* it, whether it changed anything, and what it started from: the status,
\* the client, the timer, and for a click on the tray icon whether the handler
\* before it was the second click of a double click (after_toggle).
SecondClickLast ==
  last.op = "icon_activated" /\ last.args[1] = "Trigger" /\ last.was.timer_active

Done(st, args) ==
  /\ widget' = st.w
  /\ loop' = st.l
  /\ last' = [op |-> st.calls[1], args |-> args, calls |-> Tail(st.calls),
               raised |-> st.raised,
               changed |-> (st.w # widget \/ st.l # loop),
               was |-> [status |-> Status(widget), client |-> widget.client,
                        timer_active |-> widget.timer_active,
                        after_toggle |-> /\ st.calls[1] = "icon_activated"
                                         /\ args[1] = "Trigger"
                                         /\ SecondClickLast]]

\* A handler that reaches hangups.Client() needs an object the model still has.
CanStart(l, auth) == login_result(auth) = "cookies" => FreshClients(l) # {}

\* The authentication that a handler which never reaches login is given.
NoAuth == [scn |-> "valid", prompt |-> "email", lib |-> "falsy"]

\* One authentication: what the user does and, when a prompt is cancelled
\* (only then do they matter), which prompt it is and what get_auth makes of
\* the False it was given.
Inputs == {auth \in [scn : Scenarios, prompt : Prompts, lib : LibOutcomes] :
             auth.scn = "cancel" \/ (auth.prompt = NoAuth.prompt /\ auth.lib = NoAuth.lib)}

\* what last keeps of an authentication
AuthArgs(auth) == <<auth.scn, auth.lib>>

(* -------------------------------------------------------------- actions *)

\* startAction.triggered -> hangups_start (the menu entry, when enabled)
MenuStart ==
  /\ loop.running /\ widget.startEnabled
  /\ \E auth \in Inputs :
       /\ CanStart(loop, auth)
       /\ Done(hangups_start(Begin("startAction"), auth), AuthArgs(auth))

\* stopAction.triggered -> hangups_stop (the menu entry, when enabled)
MenuStop ==
  /\ loop.running /\ widget.stopEnabled
  /\ Done(hangups_stop(Begin("stopAction")), <<>>)

\* trayIcon.activated -> icon_activated(reason)
TrayActivated ==
  /\ loop.running
  /\ \E reason \in Reasons, auth \in Inputs :
       /\ (reason = "Trigger" /\ widget.timer_active /\ ~widget.hangups_running)
            => CanStart(loop, auth)
       /\ (reason = "Trigger" /\ widget.timer_active /\ ~widget.hangups_running)
            \/ auth = NoAuth
       /\ Done(icon_activated(Begin("icon_activated"), reason, auth),
               <<reason>> \o AuthArgs(auth))

\* icon_doubleclick_timer.timeout -> icon_doubleclick_timeout (single shot)
TimerTimeout ==
  /\ loop.running /\ widget.timer_active
  /\ Done(icon_doubleclick_timeout([Begin("icon_doubleclick_timeout") EXCEPT
                                      !.w.timer_active = FALSE]), <<>>)

\* settingsAction.triggered -> settings; the dialog is accepted or rejected
SettingsTriggered ==
  /\ loop.running
  /\ \E accepted \in BOOLEAN, auth \in Inputs :
       /\ (accepted /\ widget.hangups_running) => CanStart(loop, auth)
       /\ (accepted /\ widget.hangups_running) \/ auth = NoAuth
       /\ Done(settings(Begin("settings"), accepted, auth),
               <<IF accepted THEN "accepted" ELSE "rejected">> \o AuthArgs(auth))

\* quitAction.triggered -> quit(force=False)
QuitTriggered ==
  /\ loop.running
  /\ \E reply \in {"Yes", "No"} :
       /\ widget.hangups_running \/ reply = "No"
       /\ Done(quit(Begin("quit"), FALSE, reply), <<"force=False", reply>>)

\* SIGINT / SIGTERM -> quit(force=True)
SignalReceived ==
  /\ loop.running
  /\ Done(quit(Begin("quit"), TRUE, "No"), <<"force=True">>)

\* client.connect() of client c reaches the server: client.on_connect fires once
ConnectSucceedsFor(c) ==
  /\ loop.running
  /\ loop.clients[c] = "connecting"
  /\ \E ctor \in CtorOutcomes :
       /\ widget.client # None => ctor = "ok"
       /\ Done(on_connect([Begin("on_connect") EXCEPT !.l.clients[c] = "connected"], c, ctor),
               <<ToString(c)>>)

ConnectSucceeds == \E c \in ClientIds : ConnectSucceedsFor(c)

\* client.connect() of client c fails: future.result() re-raises in the callback
ConnectFailsFor(c) ==
  /\ loop.running
  /\ c \notin loop.disconnecting
  /\ loop.clients[c] = "connecting"
  /\ Done(Raise([Begin("connect_done") EXCEPT !.l.clients[c] = "closed"]), <<ToString(c)>>)

ConnectFails == \E c \in ClientIds : ConnectFailsFor(c)

\* client.disconnect() of client c completes: the client delivers nothing more
DisconnectCompletes ==
  /\ loop.running
  /\ \E c \in loop.disconnecting :
       Done([Begin("disconnect_done") EXCEPT
               !.l.clients[c] = "closed",
               !.l.disconnecting = @ \ {c},
               !.l.observers = {cl \in @ : cl.client # Some(c)}], <<ToString(c)>>)

\* a conversation list whose client is connected delivers an event to on_event
EventArrives ==
  /\ loop.running
  /\ \E cl \in loop.observers, kind \in EventKinds, conv_id \in ConvIds :
       /\ loop.clients[Val(cl.client)] = "connected"
       /\ Done(on_event(Begin("on_event"), kind, conv_id),
               IF kind = "ChatMessageEvent" THEN <<kind, conv_id>> ELSE <<kind>>)

Next ==
  \/ MenuStart
  \/ MenuStop
  \/ TrayActivated
  \/ TimerTimeout
  \/ SettingsTriggered
  \/ QuitTriggered
  \/ SignalReceived
  \/ ConnectSucceeds
  \/ ConnectFails
  \/ DisconnectCompletes
  \/ EventArrives

Spec == Init /\ [][Next]_vars

\* The event loop runs every task it was given: a submitted connect() ends,
\* in success or in failure.
LiveSpec ==
  Spec /\ \A c \in ClientIds : WF_vars(ConnectSucceedsFor(c) \/ ConnectFailsFor(c))

\* hangups_start() and hangups_stop() called as methods, in whatever state
CallStart ==
  /\ loop.running
  /\ \E auth \in Inputs :
       /\ CanStart(loop, auth)
       /\ Done(hangups_start(Begin("call_start"), auth), AuthArgs(auth))

CallStop ==
  /\ loop.running
  /\ Done(hangups_stop(Begin("call_stop")), <<>>)

NextCalls ==
  \/ Next
  \/ CallStart
  \/ CallStop

SpecCalls == Init /\ [][NextCalls]_vars

(* ------------------------------------------------- reading the last step *)

\* the handler that ran last called name
Has(name) == \E i \in DOMAIN last.calls : last.calls[i] = name

IsToggle(name) == name \in {"hangups_start", "hangups_stop"}

\* the start()/stop() calls of the last handler, in order
Toggles == SelectSeq(last.calls, IsToggle)

IsVisibilityToggle(name) == name \in {"hide", "show"}

\* the conversation-list hide()/show() calls of icon_doubleclick_timeout
VisibilityToggles == SelectSeq(last.calls, IsVisibilityToggle)

HandlesAbsent(w) ==
  w.client = None /\ w.conv_list = None /\ w.user_list = None /\ w.notifier = None

ViewsAbsent(w) == w.conversations_dialog = None /\ w.messages_dialog = None

(* ------------------------------------------------------------------ C1 *)

\* C1: calling start() (hangups_start) in any state other than Disconnected
\* is a no-op: the widget and the collaborator state are left unchanged and
\* no new connect is submitted.
C1_StartWhenRunningIsNoOp ==
  (last.op = "call_start" /\ last.was.status # "Disconnected")
    => (~last.changed /\ ~Has("connect") /\ ~Has("hangups.Client"))

(* ------------------------------------------------------------------ C2 *)

\* C2: calling stop() (hangups_stop) while Disconnected is a no-op: it
\* completes without error, submits no disconnect and changes nothing.
C2_StopWhenDisconnectedIsNoOp ==
  (last.op = "call_stop" /\ last.was.status = "Disconnected")
    => (~last.raised /\ ~Has("disconnect") /\ ~last.changed)

(* ------------------------------------------------------------------ C3 *)

\* the last handler issued stop() and started nothing afterwards
StopReturnedLast == Has("disconnect") /\ ~Has("hangups.Client")

\* C3: after any stop() issued from Connecting or Connected, status is
\* Disconnected and the client, conversation-collection, user-collection and
\* notifier handles and both conversation views are absent, while the
\* disconnect that stop() submitted has not completed yet; and a stop()
\* issued in the present state returns in such a state as well.
C3_StopReleasesEverything ==
  /\ StopReturnedLast =>
       /\ last.was.status \in {"Connecting", "Connected"}
       /\ Status(widget) = "Disconnected"
       /\ HandlesAbsent(widget) /\ ViewsAbsent(widget)
       /\ Val(last.was.client) \in loop.disconnecting
  /\ widget.hangups_running =>
       LET s == hangups_stop(Begin("hangups_stop")) IN
         /\ ~s.raised
         /\ Status(s.w) = "Disconnected" /\ HandlesAbsent(s.w) /\ ViewsAbsent(s.w)
         /\ Val(widget.client) \in s.l.disconnecting

\* stop() from the menu has just returned from a Connected session
C3_Witness ==
  /\ last.op = "stopAction" /\ last.was.status = "Connected"
  /\ StopReturnedLast /\ Val(last.was.client) \in loop.disconnecting

(* ------------------------------------------------------------------ C4 *)

\* C4: a tray click that arrives while the double-click timer is running
\* (the second click of two) makes exactly one connection toggle, start() if
\* Disconnected and stop() otherwise, no conversation-list visibility toggle,
\* and leaves the timer idle.
C4_SecondClickTogglesConnection ==
  (last.op = "icon_activated" /\ last.args[1] = "Trigger" /\ last.was.timer_active)
    => /\ Toggles = IF last.was.status = "Disconnected"
                    THEN <<"hangups_start">> ELSE <<"hangups_stop">>
       /\ VisibilityToggles = <<>>
       /\ ~widget.timer_active

\* the second click has connected a Disconnected session
C4_Witness ==
  /\ last.op = "icon_activated" /\ last.args[1] = "Trigger" /\ last.was.timer_active
  /\ last.was.status = "Disconnected" /\ Status(widget) = "Connecting"
  /\ ~widget.timer_active

(* ------------------------------------------------------------------ C5 *)

\* C5: when the timer armed by one click expires, exactly one visibility
\* toggle action is taken on the conversation list (hide if visible, show if
\* hidden, nothing if there is no list), neither start() nor stop() is
\* called, the session is left as it was and the timer ends idle.
C5_TimeoutTogglesVisibility ==
  last.op = "icon_doubleclick_timeout" =>
    /\ last.was.timer_active /\ ~widget.timer_active
    /\ Toggles = <<>>
    /\ Status(widget) = last.was.status /\ widget.client = last.was.client
    /\ last.calls = VisibilityToggles
    /\ IF widget.conversations_dialog = None THEN last.calls = <<>>
       ELSE IF Val(widget.conversations_dialog).visible THEN last.calls = <<"show">>
       ELSE last.calls = <<"hide">>

\* the timeout has hidden a visible conversation list
C5_Witness ==
  /\ last.op = "icon_doubleclick_timeout" /\ last.calls = <<"hide">>
  /\ widget.conversations_dialog # None /\ ~Val(widget.conversations_dialog).visible

(* ------------------------------------------------------------------ C6 *)

\* C6: a message-arrival event when no message view exists creates exactly
\* one view, targets the tab of its conversation and shows the view; a
\* message-arrival event when a view exists creates none, retargets that view
\* to the tab of its conversation, keeps every tab the view had and shows it.
C6_MessageViewIsCreatedOnceAndReused ==
  [][(last'.op = "on_event" /\ last'.args[1] = "ChatMessageEvent") =>
       LET conv_id == last'.args[2]
           created == SelectSeq(last'.calls, LAMBDA x : x = "QHangupsConversations")
           view == Val(widget'.messages_dialog)
       IN /\ widget'.messages_dialog # None
          /\ view.current = Some(conv_id) /\ view.visible
          /\ IF widget.messages_dialog = None
             THEN Len(created) = 1 /\ view.tabs = {conv_id}
             ELSE created = <<>> /\ view.tabs = Val(widget.messages_dialog).tabs \cup {conv_id}
     ]_vars

\* a message for C42 has retargeted the view that already showed tab C1
C6_Witness ==
  /\ last.op = "on_event" /\ last.args = <<"ChatMessageEvent", "C42">>
  /\ ~Has("QHangupsConversations")
  /\ widget.messages_dialog # None
  /\ Val(widget.messages_dialog).tabs = {"C1", "C42"}
  /\ Val(widget.messages_dialog).current = Some("C42")

(* ------------------------------------------------------------------ C7 *)

\* C7: an accepted settings change while the session is Connected reloads
\* the language and makes exactly one stop() followed by exactly one start(),
\* in that order; when the handler returns no handle or view of the session
\* that was open remains: its client has been handed to disconnect and the
\* widget holds either no client or the client the new start() created.
C7_SettingsChangeReconnects ==
  (last.op = "settings" /\ last.args[1] = "accepted" /\ last.was.status = "Connected")
    => /\ Has("set_language")
       /\ Toggles = <<"hangups_stop", "hangups_start">>
       /\ widget.client # last.was.client
       /\ Val(last.was.client) \in loop.disconnecting
       /\ widget.conv_list = None /\ widget.user_list = None /\ widget.notifier = None
       /\ ViewsAbsent(widget)
       /\ widget.client # None =>
            /\ Has("hangups.Client") /\ Has("connect")
            /\ loop.clients[Val(widget.client)] = "connecting"
            /\ Status(widget) = "Connecting"

\* the settings change has replaced a Connected session by a new connecting one
C7_Witness ==
  /\ last.op = "settings" /\ last.args[1] = "accepted" /\ last.was.status = "Connected"
  /\ Toggles = <<"hangups_stop", "hangups_start">>
  /\ widget.client # None /\ widget.client # last.was.client

(* ------------------------------------------------------------------ C8 *)

\* the connect that start() submitted for the session's client is in flight
ConnectInFlight ==
  widget.client # None /\ loop.clients[Val(widget.client)] = "connecting"

\* on_connect has just delivered the snapshot of the session's own client
SnapshotDelivered ==
  /\ last.op = "on_connect" /\ widget.client # None
  /\ last.args = <<ToString(Val(widget.client))>>
  /\ Status(widget) = "Connected"
  /\ widget.conv_list = Some([client |-> widget.client, data |-> Val(widget.client)])
  /\ widget.conversations_dialog # None /\ Val(widget.conversations_dialog).visible

\* the connect of the session's client has failed
ConnectFailed ==
  widget.client # None /\ loop.clients[Val(widget.client)] = "closed"

\* C8: once start() has submitted the connect of the session's client,
\* then, unless the connect fails or the session is stopped, the snapshot of
\* that client is eventually delivered, status is Connected and the
\* conversation list is visible; and whenever a message-arrival event is
\* delivered the message view is visible and shows the tab of its
\* conversation.
C8_StartLeadsToConnectedAndMessageShown ==
  /\ ConnectInFlight ~> (SnapshotDelivered \/ ConnectFailed \/ widget.client = None)
  /\ [](last.op = "on_event" /\ last.args[1] = "ChatMessageEvent" =>
          /\ widget.messages_dialog # None
          /\ Val(widget.messages_dialog).visible
          /\ Val(widget.messages_dialog).current = Some(last.args[2])
          /\ last.args[2] \in Val(widget.messages_dialog).tabs)

\* a Connected session with its conversation list visible shows tab C42
\* after the message event for C42
C8_Witness ==
  /\ last.op = "on_event" /\ last.args = <<"ChatMessageEvent", "C42">>
  /\ Status(widget) = "Connected"
  /\ widget.client # None
  /\ widget.conv_list = Some([client |-> widget.client, data |-> Val(widget.client)])
  /\ widget.conversations_dialog # None /\ Val(widget.conversations_dialog).visible
  /\ widget.messages_dialog # None
  /\ Val(widget.messages_dialog).visible
  /\ Val(widget.messages_dialog).current = Some("C42")

(* ------------------------------------------------------------------ C9 *)

\* the last handler called start() and the user gave bad credentials
BadCredentialsStart ==
  /\ Has("hangups_start") /\ Len(last.args) >= 2
  /\ last.args[Len(last.args) - 1] = "bad_credentials"

\* C9: when start() runs from Disconnected and authentication fails with
\* GoogleAuthError, a warning is shown, status stays Disconnected, no client
\* is created, no connect is submitted and the affordances stay those of a
\* disconnected widget; start() from the menu changes nothing at all.
C9_AuthErrorWarnsAndStaysDisconnected ==
  BadCredentialsStart =>
    /\ Has("QMessageBox.warning") /\ ~last.raised
    /\ Status(widget) = "Disconnected" /\ widget.client = None
    /\ ~Has("hangups.Client") /\ ~Has("connect")
    /\ widget.startEnabled /\ ~widget.stopEnabled /\ widget.icon = "iconDisabled"
    /\ last.op = "startAction" => ~last.changed

\* start() from the menu has failed on bad credentials
C9_Witness ==
  /\ last.op = "startAction" /\ BadCredentialsStart
  /\ Has("QMessageBox.warning") /\ Status(widget) = "Disconnected"

(* ----------------------------------------------------------------- C10 *)

\* the last handler called start() and the user cancelled a prompt
CancelledStart ==
  /\ Has("hangups_start") /\ Len(last.args) >= 2
  /\ last.args[Len(last.args) - 1] = "cancel"

\* C10: when the user cancels the credential or the PIN prompt during
\* start(), no warning is shown, status stays Disconnected and no session
\* handle is created.
C10_CancelIsSilent ==
  CancelledStart =>
    /\ ~Has("QMessageBox.warning")
    /\ Status(widget) = "Disconnected" /\ widget.client = None
    /\ ~Has("hangups.Client")

(* ----------------------------------------------------------------- C11 *)

\* C11: a non-forced quit while the session is Connected asks for
\* confirmation, and when the user declines nothing happens: stop() is not
\* called, the loop is not stopped, and the widget and the collaborator
\* state are unchanged.
C11_DeclinedQuitIsNoOp ==
  (last.op = "quit" /\ last.args = <<"force=False", "No">> /\ last.was.status = "Connected")
    => /\ last.calls = <<"QMessageBox.question">>
       /\ loop.running
       /\ ~last.changed /\ ~last.raised
       /\ Status(widget) = "Connected"

\* the user has declined to quit a Connected session
C11_Witness ==
  /\ last.op = "quit" /\ last.args = <<"force=False", "No">>
  /\ last.was.status = "Connected" /\ Has("QMessageBox.question")
  /\ loop.running /\ widget.conversations_dialog # None

(* ----------------------------------------------------------------- C12 *)

\* position of the first call of name by the last handler (0: not called)
FirstCall(name) ==
  IF Has(name) THEN CHOOSE i \in DOMAIN last.calls :
                      /\ last.calls[i] = name
                      /\ \A j \in 1 .. (i - 1) : last.calls[j] # name
  ELSE 0

\* the last handler was a forced quit, or a quit the user confirmed
QuitWentAhead ==
  /\ last.op = "quit"
  /\ last.args = <<"force=True">> \/ last.args = <<"force=False", "Yes">>

\* C12: a forced quit never asks for confirmation and always ends with the
\* loop stopped; a forced or confirmed quit of a Connecting or Connected
\* session performs stop() first, so that the session is torn down (status
\* Disconnected, all handles and views absent, disconnect submitted) before
\* loop.stop().
C12_QuitStopsSessionThenLoop ==
  /\ (last.op = "quit" /\ last.args = <<"force=True">>) =>
       ~Has("QMessageBox.question") /\ ~loop.running
  /\ QuitWentAhead =>
       /\ ~loop.running /\ ~last.raised
       /\ last.calls[Len(last.calls)] = "loop.stop"
       /\ last.was.status \in {"Connecting", "Connected"} =>
            /\ Toggles = <<"hangups_stop">>
            /\ 0 < FirstCall("disconnect")
            /\ FirstCall("disconnect") < FirstCall("loop.stop")
            /\ Status(widget) = "Disconnected"
            /\ HandlesAbsent(widget) /\ ViewsAbsent(widget)
            /\ Val(last.was.client) \in loop.disconnecting
       /\ last.was.status = "Disconnected" => Toggles = <<>>

\* a termination signal has torn down a Connected session and stopped the loop
C12_Witness ==
  /\ last.op = "quit" /\ last.args = <<"force=True">>
  /\ last.was.status = "Connected"
  /\ ~loop.running /\ Status(widget) = "Disconnected"

(* ----------------------------------------------------------------- C13 *)

\* C13: in every reachable state the four handles (client, user_list,
\* conv_list, notifier) agree with the status: Disconnected holds none of
\* them, Connecting holds only the client, Connected holds all four.
C13_HandlesMatchStatus ==
  /\ Status(widget) = "Disconnected" => HandlesAbsent(widget)
  /\ Status(widget) = "Connecting" =>
       /\ widget.client # None
       /\ widget.conv_list = None /\ widget.user_list = None /\ widget.notifier = None
  /\ Status(widget) = "Connected" =>
       /\ widget.client # None
       /\ widget.conv_list # None /\ widget.user_list # None /\ widget.notifier # None

(* ----------------------------------------------------------------- C14 *)

\* C14: stop() issued while Connecting neither cancels nor awaits the
\* connect in flight: right after it the stopped client is only submitted for
\* disconnect and its connect is still pending (unless it had failed
\* already).  And on_connect checks no status and no client identity:
\* whenever it returns, in whatever status it was delivered, the user list,
\* the conversation list and the notifier are built from the delivered
\* snapshot and the conversation-list view is shown, while the running flag
\* and the client handle stay what they were, so that a callback delivered
\* to a Disconnected widget leaves these effects on the Disconnected state.
C14_LateSnapshotIsApplied ==
  /\ (StopReturnedLast /\ last.was.status = "Connecting") =>
       /\ Val(last.was.client) \in loop.disconnecting
       /\ loop.clients[Val(last.was.client)] \in {"connecting", "closed"}
  /\ (last.op = "on_connect" /\ ~last.raised) =>
       /\ \E c \in ClientIds :
            /\ last.args = <<ToString(c)>>
            /\ widget.conv_list = Some([client |-> widget.client, data |-> c])
            /\ widget.user_list = widget.conv_list
            /\ widget.notifier = widget.conv_list
       /\ widget.conversations_dialog # None
       /\ Val(widget.conversations_dialog).visible
       /\ widget.client = last.was.client
       /\ (Status(widget) = "Disconnected") = (last.was.status = "Disconnected")

\* the connect of a client stopped while Connecting has succeeded after the
\* status went back to Disconnected, and its snapshot has been applied
C14_Witness ==
  /\ last.op = "on_connect" /\ ~last.raised
  /\ last.was.status = "Disconnected" /\ Status(widget) = "Disconnected"
  /\ widget.conv_list # None /\ widget.user_list # None /\ widget.notifier # None
  /\ widget.conversations_dialog # None
  /\ \E c \in loop.disconnecting : last.args = <<ToString(c)>>

(* ----------------------------------------------------------------- C15 *)

\* the clients whose connection is neither closed nor being disconnected
LiveClients ==
  {c \in ClientIds : loop.clients[c] \in {"connecting", "connected"} /\ c \notin loop.disconnecting}

\* C15: at most one session is live at a time. Between a start() and the
\* next stop() on_connect is applied at most once, and only with the
\* snapshot of the client that this start() created; after a reconnect the
\* snapshot of a previous client is never applied to the new session, and
\* the session's client never carries a second event observer or is given a
\* second conversation-list view.
C15_OneSnapshotPerSession ==
  /\ \A c \in LiveClients : widget.client = Some(c)
  /\ (last.op = "on_connect" /\ last.was.status # "Disconnected") =>
       /\ last.was.status = "Connecting"
       /\ last.args = <<ToString(Val(widget.client))>>
       /\ widget.conv_list = Some([client |-> widget.client, data |-> Val(widget.client)])
  /\ widget.client # None =>
       Cardinality({cl \in loop.observers : cl.client = widget.client}) <= 1

(* ----------------------------------------------------------------- C16 *)

\* the last handler was a click on the tray icon that came right after the
\* second click of a double click: the third click of a rapid sequence
ThirdClickLast ==
  last.op = "icon_activated" /\ last.args[1] = "Trigger" /\ last.was.after_toggle

\* C16 as stated: the third click of a rapid three-click sequence collapses
\* into the two-click action, so that it toggles the connection no further,
\* toggles no visibility and leaves the gesture timer Idle.
C16_ThirdClickCollapses ==
  ThirdClickLast =>
    /\ Toggles = <<>> /\ VisibilityToggles = <<>>
    /\ ~widget.timer_active

\* C16 amended: the second click has stopped the timer, so the third click
\* of a rapid sequence is the first click of a new gesture. It toggles
\* neither the connection nor the visibility, changes nothing but the timer,
\* and leaves the timer Armed.
C16_ThirdClickArmsAgain ==
  ThirdClickLast =>
    /\ Toggles = <<>> /\ VisibilityToggles = <<>>
    /\ last.calls = <<>> /\ ~last.raised
    /\ ~last.was.timer_active /\ widget.timer_active
    /\ Status(widget) = last.was.status /\ widget.client = last.was.client

\* three clicks in a row: the third has armed the timer again
C16_Witness ==
  ThirdClickLast /\ widget.timer_active /\ ~last.was.timer_active

(* ----------------------------------------------------------------- C17 *)

\* C17: a conversation event that is not a message arrival changes nothing:
\* on_event creates no message view, selects no tab, shows or hides nothing,
\* and leaves status, handles and every other field as they were.
C17_OtherEventChangesNothing ==
  (last.op = "on_event" /\ last.args[1] # "ChatMessageEvent") =>
    /\ last.calls = <<>> /\ ~last.raised
    /\ ~last.changed
    /\ Status(widget) = last.was.status /\ widget.client = last.was.client

\* an event of another kind has been delivered to a Connected session that
\* has no message view
C17_Witness ==
  /\ last.op = "on_event" /\ last.args = <<"OtherEvent">>
  /\ last.was.status = "Connected"
  /\ widget.messages_dialog = None /\ widget.conversations_dialog # None

(* ----------------------------------------------------------------- C18 *)

\* the last handler was a click on the tray icon or the expiry of the timer
ClickOrExpiryLast ==
  \/ last.op = "icon_activated" /\ last.args[1] = "Trigger"
  \/ last.op = "icon_doubleclick_timeout"

\* C18: the gesture timer changes state only in a click on the tray icon
\* (activation reason Trigger) and in its own expiry. Every other handler,
\* start and stop from the menu, settings, quit, the connect callbacks, the
\* events, and an activation for another reason, leaves an Armed timer Armed
\* and an Idle timer Idle.
C18_OnlyClickAndExpiryMoveTimer ==
  /\ ~ClickOrExpiryLast => widget.timer_active = last.was.timer_active
  /\ (last.op = "icon_activated" /\ last.args[1] # "Trigger") =>
       /\ widget.timer_active = last.was.timer_active
       /\ ~last.changed /\ last.calls = <<>>

\* the tray icon has been activated for another reason than a click while the
\* timer was Armed, and the timer is Armed still
C18_Witness ==
  /\ last.op = "icon_activated" /\ last.args[1] = "Context"
  /\ last.was.timer_active /\ widget.timer_active

(* ----------------------------------------------------------------- C19 *)

\* C19: in every reachable state the menu actions and the tray icon agree
\* with hangups_running: the connect action is enabled exactly when it is
\* False, the disconnect action exactly when it is True, and the icon shows
\* the active glyph exactly when it is True.
C19_AffordancesFollowRunningFlag ==
  /\ widget.startEnabled = ~widget.hangups_running
  /\ widget.stopEnabled = widget.hangups_running
  /\ (widget.icon = "iconActive") = widget.hangups_running
  /\ widget.icon \in {"iconActive", "iconDisabled"}

\* a handler has started a session: the flag is set and the affordances have
\* followed it
C19_Witness ==
  /\ Toggles = <<"hangups_start">> /\ Has("update_status")
  /\ last.was.status = "Disconnected"
  /\ widget.hangups_running /\ widget.stopEnabled /\ ~widget.startEnabled
  /\ widget.icon = "iconActive"

(* ----------------------------------------------------------------- C20 *)

\* C20: whenever the status is Disconnected there is neither a message view
\* nor a conversation-list view, also after a message event of the session
\* that stop() has torn down is delivered late: an event delivered to a
\* Disconnected widget creates no view.
C20_NoViewsWhenDisconnected ==
  /\ Status(widget) = "Disconnected" => ViewsAbsent(widget)
  /\ (last.op = "on_event" /\ last.was.status = "Disconnected") =>
       ~Has("QHangupsConversations") /\ ~Has("show")

====
